---- MODULE Spec2Model ----
(***************************************************************************)
(* Pizza-order CRUD service: one JSON file (pizzas.json) shared by three   *)
(* HTTP front ends (FastAPI, Flask, Django).  The store functions of       *)
(* FastAPI/mylib.py and Django/.../orders/crud.py are line-for-line the    *)
(* same; Flask/app.py imports the same six names from its own mylib.       *)
(*                                                                         *)
(* A Python dict is a TLA+ function from its keys to its values.  A        *)
(* Python list is a sequence.  An optional value (None or a dict) is a     *)
(* sequence of length 0 or 1.                                              *)
(***************************************************************************)
EXTENDS Integers, Sequences, FiniteSets

\* ------------------------------------------------------------------ bounds

\* createOrder is only issued while the stored list is shorter than this.
MaxOrders == 3
\* Number of distinct order ids the model lets the store hand out.
IdSpan == 3
\* Total number of store operations started in the interleaved specification.
MaxReqs == 5

\* ------------------------------------------------------- program constants

\* get_next_order_id: the id given to the first order of an empty store.
FirstOrderId == 1001

HTTP_200_OK == 200
HTTP_201_CREATED == 201
HTTP_400_BAD_REQUEST == 400
HTTP_404_NOT_FOUND == 404
\* FastAPI answers a body that fails request validation with 422, and a
\* return value that fails response_model validation with 500.
HTTP_422_UNPROCESSABLE == 422
HTTP_500_SERVER_ERROR == 500

\* ------------------------------------------------------------------ values

None == <<>>
Some(x) == <<x>>

MaxId == FirstOrderId + IdSpan - 1
\* Ids a request may name: every id the store can hold plus one it never holds.
Ids == FirstOrderId .. (MaxId + 1)

Variants == {"FastAPI", "Flask", "Django"}

\* OrderBase / OrderSchema / OrderSerializer: the fields a full body needs.
RequiredFields == {"customer", "address", "items", "total", "status"}
\* The fields the Flask and Django schemas declare.
DeclaredFields == RequiredFields \cup {"orderId"}

Item == [pizza |-> "Margherita", size |-> "Medium", quantity |-> 1]

BodyAlice ==
    [customer |-> "Alice", address |-> "1 Main St", items |-> <<Item>>,
     total |-> 9, status |-> "Pending"]
BodyBob ==
    [customer |-> "Bob", address |-> "2 Side St", items |-> <<Item, Item>>,
     total |-> 18, status |-> "Delivered"]
\* A full body that carries an orderId of its own.
BodyWithId ==
    [customer |-> "Alice", address |-> "1 Main St", items |-> <<Item>>,
     total |-> 9, status |-> "Pending", orderId |-> FirstOrderId + 1]
\* A body with one field only: valid for Flask's PUT (partial=True) alone.
BodyPartial == [status |-> "Cancelled"]

Bodies == {BodyAlice, BodyBob, BodyWithId, BodyPartial}

\* d[k] = v on a Python dict: the key is added or its value replaced.
SetItem(d, k, v) == [x \in DOMAIN d \cup {k} |-> IF x = k THEN v ELSE d[x]]
\* The dict restricted to the keys in ks.
Restrict(d, ks) == [x \in DOMAIN d \cap ks |-> d[x]]

SetMax(S) == CHOOSE m \in S : \A x \in S : x <= m
SetMin(S) == CHOOSE m \in S : \A x \in S : m <= x

\* ------------------------------------------------------------- JSON file

\* Order in which the members of an object are laid out in the document.
KeyOrder == <<"orderId", "customer", "address", "items", "total", "status">>

\* json.dump of one dict: the object as a sequence of <<key, value>> members.
json_dump_object(d) ==
    LET keys == SelectSeq(KeyOrder, LAMBDA k : k \in DOMAIN d)
    IN  [i \in 1 .. Len(keys) |-> <<keys[i], d[keys[i]]>>]

\* json.load of one object: the dict with one key per member.
json_load_object(obj) ==
    [k \in {obj[i][1] : i \in 1 .. Len(obj)} |->
        obj[CHOOSE i \in 1 .. Len(obj) : obj[i][1] = k][2]]

json_dump(data) == [i \in 1 .. Len(data) |-> json_dump_object(data[i])]
json_load(doc) == [i \in 1 .. Len(doc) |-> json_load_object(doc[i])]

\* The file system before pizzas.json was ever written.
NoFile == [exists |-> FALSE, doc |-> <<>>]

\* read_orders(): [] when the file does not exist, else the parsed document.
read_orders(f) == IF ~f.exists THEN <<>> ELSE json_load(f.doc)

\* write_orders(data): the file is overwritten with the whole list.
write_orders(data) == [exists |-> TRUE, doc |-> json_dump(data)]

\* ------------------------------------------------------- store functions
\* Each store function is given `orders`, the list its first line read with
\* read_orders(), and yields the value it returns (ret), whether it calls
\* write_orders (writes), and the list it writes (data).

\* Variant: the id is the largest stored id, not incremented.
get_next_order_id_no_increment(orders) ==
    IF orders = <<>>
    THEN FirstOrderId
    ELSE SetMax({orders[i].orderId : i \in 1 .. Len(orders)})

\* Variant: the id is derived from the number of stored orders.
get_next_order_id_by_count(orders) == FirstOrderId + Len(orders)

get_next_order_id(orders) ==
    IF orders = <<>>
    THEN FirstOrderId
    ELSE SetMax({orders[i].orderId : i \in 1 .. Len(orders)}) + 1

create_order(orders, order) ==
    LET o == SetItem(order, "orderId", get_next_order_id(orders))
    IN  [data |-> Append(orders, o), writes |-> TRUE, ret |-> Some(o)]

\* Variant: a draft that carries an orderId keeps it.
update_order_keeps_draft_id(orders, order_id, updated_order) ==
    LET hits == {i \in 1 .. Len(orders) : orders[i].orderId = order_id}
    IN  IF hits = {}
        THEN [data |-> orders, writes |-> FALSE, ret |-> None]
        ELSE LET i == SetMin(hits)
                 u == IF "orderId" \in DOMAIN updated_order
                      THEN updated_order
                      ELSE SetItem(updated_order, "orderId", order_id)
             IN  [data |-> [orders EXCEPT ![i] = u], writes |-> TRUE,
                  ret |-> Some(u)]

\* Variant: the draft is merged into the stored record (dict.update).
update_order_merge(orders, order_id, updated_order) ==
    LET hits == {i \in 1 .. Len(orders) : orders[i].orderId = order_id}
    IN  IF hits = {}
        THEN [data |-> orders, writes |-> FALSE, ret |-> None]
        ELSE LET i == SetMin(hits)
                 m == [k \in DOMAIN orders[i] \cup DOMAIN updated_order |->
                          IF k \in DOMAIN updated_order
                          THEN updated_order[k] ELSE orders[i][k]]
                 u == SetItem(m, "orderId", order_id)
             IN  [data |-> [orders EXCEPT ![i] = u], writes |-> TRUE,
                  ret |-> Some(u)]

\* Variant: an id that matches no record is inserted (upsert).
update_order_upsert(orders, order_id, updated_order) ==
    LET hits == {i \in 1 .. Len(orders) : orders[i].orderId = order_id}
        u == SetItem(updated_order, "orderId", order_id)
    IN  IF hits = {}
        THEN [data |-> Append(orders, u), writes |-> TRUE, ret |-> Some(u)]
        ELSE [data |-> [orders EXCEPT ![SetMin(hits)] = u], writes |-> TRUE,
              ret |-> Some(u)]

update_order(orders, order_id, updated_order) ==
    LET hits == {i \in 1 .. Len(orders) : orders[i].orderId = order_id}
    IN  IF hits = {}
        THEN [data |-> orders, writes |-> FALSE, ret |-> None]
        ELSE LET i == SetMin(hits)
                 u == SetItem(updated_order, "orderId", order_id)
             IN  [data |-> [orders EXCEPT ![i] = u], writes |-> TRUE,
                  ret |-> Some(u)]

\* Variant: the filter keeps the records with a larger id only.
delete_order_keeps_larger(orders, order_id) ==
    LET new_orders == SelectSeq(orders, LAMBDA o : o.orderId > order_id)
    IN  IF Len(new_orders) # Len(orders)
        THEN [data |-> new_orders, writes |-> TRUE,
              ret |-> Some([orderId |-> order_id, status |-> "deleted"])]
        ELSE [data |-> orders, writes |-> FALSE,
              ret |-> Some([orderId |-> order_id, status |-> "not found"])]

delete_order(orders, order_id) ==
    LET new_orders == SelectSeq(orders, LAMBDA o : o.orderId # order_id)
    IN  IF Len(new_orders) # Len(orders)
        THEN [data |-> new_orders, writes |-> TRUE,
              ret |-> Some([orderId |-> order_id, status |-> "deleted"])]
        ELSE [data |-> orders, writes |-> FALSE,
              ret |-> Some([orderId |-> order_id, status |-> "not found"])]

get_order(orders, order_id) ==
    LET hits == {i \in 1 .. Len(orders) : orders[i].orderId = order_id}
    IN  IF hits = {} THEN None ELSE Some(orders[SetMin(hits)])

list_orders(orders) == orders

\* The file after a store function that read f and came to result r.
Persist(f, r) == IF r.writes THEN write_orders(r.data) ELSE f

\* ------------------------------------------------------ boundary layers

\* What a dict evaluates to under Python's `if x:`; None is falsy, and so is
\* a dict with no key.
Truthy(opt) == opt # None /\ DOMAIN opt[1] # {}

NotFoundBody == [error |-> "Order not found"]

\* FastAPI (schemas.py): the body must hold every field of OrderBase.
fastapi_valid(body) == RequiredFields \subseteq DOMAIN body
\* order.dict(): the fields of OrderBase and no other.
fastapi_dict(body) == Restrict(body, RequiredFields)
\* response_model=Order: the returned dict must hold every field of Order;
\* one that does not is answered with a server error.
fastapi_response(value) ==
    IF (RequiredFields \cup {"orderId"}) \subseteq DOMAIN value
    THEN [status |-> HTTP_200_OK, body |-> Some(value)]
    ELSE [status |-> HTTP_500_SERVER_ERROR, body |-> None]

\* Flask (schemas.py): order_schema.validate(data, partial) has no errors.
flask_valid(body, partial) ==
    /\ DOMAIN body \subseteq DeclaredFields
    /\ partial \/ RequiredFields \subseteq DOMAIN body
\* order_schema.dump(order): the declared fields the dict holds.
flask_dump(order) == Restrict(order, DeclaredFields)

\* Django (serializers.py): serializer.is_valid().
django_valid(body) == RequiredFields \subseteq DOMAIN body
\* serializer.validated_data: the declared fields of the body.
django_validated_data(body) == Restrict(body, DeclaredFields)

\* The outcome of a handler: the store function it called ("none" when the
\* body was rejected first), that function's result, and the response.
NoCall(orders, resp) ==
    [call |-> "none", arg |-> None,
     r |-> [data |-> orders, writes |-> FALSE, ret |-> None],
     resp |-> resp]
Outcome(call, arg, r, resp) == [call |-> call, arg |-> arg, r |-> r, resp |-> resp]

\* GET /orders/{id}
read_order_fastapi(orders, order_id) ==
    LET order == get_order(orders, order_id)
        r == [data |-> orders, writes |-> FALSE, ret |-> order]
    IN  Outcome("get_order", None, r,
                IF Truthy(order)
                THEN fastapi_response(order[1])
                ELSE fastapi_response(NotFoundBody))

read_order_flask(orders, order_id) ==
    LET order == get_order(orders, order_id)
        r == [data |-> orders, writes |-> FALSE, ret |-> order]
    IN  Outcome("get_order", None, r,
                IF Truthy(order)
                THEN [status |-> HTTP_200_OK, body |-> Some(flask_dump(order[1]))]
                ELSE [status |-> HTTP_404_NOT_FOUND, body |-> Some(NotFoundBody)])

read_order_django(orders, order_id) ==
    LET order == get_order(orders, order_id)
        r == [data |-> orders, writes |-> FALSE, ret |-> order]
    IN  Outcome("get_order", None, r,
                IF Truthy(order)
                THEN [status |-> HTTP_200_OK, body |-> order]
                ELSE [status |-> HTTP_404_NOT_FOUND, body |-> Some(NotFoundBody)])

\* POST /orders
add_order_fastapi(orders, body) ==
    IF ~fastapi_valid(body)
    THEN NoCall(orders, [status |-> HTTP_422_UNPROCESSABLE, body |-> None])
    ELSE LET r == create_order(orders, fastapi_dict(body))
         IN  Outcome("create_order", Some(fastapi_dict(body)), r, fastapi_response(r.ret[1]))

add_order_flask(orders, body) ==
    IF ~flask_valid(body, FALSE)
    THEN NoCall(orders, [status |-> HTTP_400_BAD_REQUEST, body |-> None])
    ELSE LET r == create_order(orders, body)
         IN  Outcome("create_order", Some(body), r,
                     [status |-> HTTP_200_OK, body |-> Some(flask_dump(r.ret[1]))])

add_order_django(orders, body) ==
    IF ~django_valid(body)
    THEN NoCall(orders, [status |-> HTTP_400_BAD_REQUEST, body |-> None])
    ELSE LET r == create_order(orders, django_validated_data(body))
         IN  Outcome("create_order", Some(django_validated_data(body)), r,
                     [status |-> HTTP_201_CREATED, body |-> r.ret])

\* PUT /orders/{id}
modify_order_fastapi(orders, order_id, body) ==
    IF ~fastapi_valid(body)
    THEN NoCall(orders, [status |-> HTTP_422_UNPROCESSABLE, body |-> None])
    ELSE LET r == update_order(orders, order_id, fastapi_dict(body))
         IN  Outcome("update_order", Some(fastapi_dict(body)), r,
                     IF Truthy(r.ret)
                     THEN fastapi_response(r.ret[1])
                     ELSE fastapi_response(NotFoundBody))

modify_order_flask(orders, order_id, body) ==
    IF ~flask_valid(body, TRUE)
    THEN NoCall(orders, [status |-> HTTP_400_BAD_REQUEST, body |-> None])
    ELSE LET r == update_order(orders, order_id, body)
         IN  Outcome("update_order", Some(body), r,
                     IF Truthy(r.ret)
                     THEN [status |-> HTTP_200_OK,
                           body |-> Some(flask_dump(r.ret[1]))]
                     ELSE [status |-> HTTP_404_NOT_FOUND,
                           body |-> Some(NotFoundBody)])

modify_order_django(orders, order_id, body) ==
    IF ~django_valid(body)
    THEN NoCall(orders, [status |-> HTTP_400_BAD_REQUEST, body |-> None])
    ELSE LET r == update_order(orders, order_id, django_validated_data(body))
         IN  Outcome("update_order", Some(django_validated_data(body)), r,
                     IF Truthy(r.ret)
                     THEN [status |-> HTTP_200_OK, body |-> r.ret]
                     ELSE [status |-> HTTP_404_NOT_FOUND,
                           body |-> Some(NotFoundBody)])

\* DELETE /orders/{id}: the three handlers return delete_order's result.
remove_order_any(orders, order_id) ==
    LET r == delete_order(orders, order_id)
    IN  Outcome("delete_order", None, r, [status |-> HTTP_200_OK, body |-> r.ret])

\* GET /orders: the three handlers return list_orders().
read_orders_any(orders) ==
    Outcome("list_orders", None,
            [data |-> orders, writes |-> FALSE, ret |-> Some(list_orders(orders))],
            [status |-> HTTP_200_OK, body |-> Some(list_orders(orders))])

read_order_of(v, orders, order_id) ==
    CASE v = "FastAPI" -> read_order_fastapi(orders, order_id)
      [] v = "Flask"   -> read_order_flask(orders, order_id)
      [] v = "Django"  -> read_order_django(orders, order_id)

add_order_of(v, orders, body) ==
    CASE v = "FastAPI" -> add_order_fastapi(orders, body)
      [] v = "Flask"   -> add_order_flask(orders, body)
      [] v = "Django"  -> add_order_django(orders, body)

modify_order_of(v, orders, order_id, body) ==
    CASE v = "FastAPI" -> modify_order_fastapi(orders, order_id, body)
      [] v = "Flask"   -> modify_order_flask(orders, order_id, body)
      [] v = "Django"  -> modify_order_django(orders, order_id, body)

\* ---------------------------------------------------------------- state

VARIABLES
    file,         \* pizzas.json
    \* one request at a time (Spec): the last request and what came of it
    req,          \* the request: kind, variant, id, body
    pre,          \* the file as the request found it
    call,         \* the store function the handler called, or "none"
    arg,          \* the dict the handler passed to it, if any
    ret,          \* what that store function returned
    resp,         \* the HTTP response: status and body
    assigned,     \* the orderIds create_order has handed out so far
    onlyCreates,  \* every store call so far was create_order
    \* interleaved store operations (SpecConc)
    pc,           \* per process: "idle", "read" (list read, not yet written), "done"
    op,           \* per process: the store operation it runs
    orders,       \* per process: the list its read_orders() returned
    result,       \* per process: the value its operation returned
    stale,        \* per process: the file had changed between its read and its write
    lastWriter,   \* the process whose write_orders ran last (0: none yet)
    nreq          \* store operations started so far

seqVars == <<req, pre, call, arg, ret, resp, assigned, onlyCreates>>
concVars == <<pc, op, orders, result, stale, lastWriter, nreq>>
vars == <<file, req, pre, call, arg, ret, resp, assigned, onlyCreates,
          pc, op, orders, result, stale, lastWriter, nreq>>

Procs == {1, 2}

NoReq == [kind |-> "none", variant |-> "none", id |-> 0, body |-> None]
NoOp == [kind |-> "none", id |-> 0, draft |-> None]

InitSeq ==
    /\ req = NoReq
    /\ pre = NoFile
    /\ call = "none"
    /\ arg = None
    /\ ret = None
    /\ resp = [status |-> 0, body |-> None]
    /\ assigned = {}
    /\ onlyCreates = TRUE

InitConc ==
    /\ pc = [p \in Procs |-> "idle"]
    /\ op = [p \in Procs |-> NoOp]
    /\ orders = [p \in Procs |-> <<>>]
    /\ result = [p \in Procs |-> None]
    /\ stale = [p \in Procs |-> FALSE]
    /\ lastWriter = 0
    /\ nreq = 0

\* The store is empty: pizzas.json does not exist.
Init == file = NoFile /\ InitSeq /\ InitConc

\* ------------------------------------------- one request at a time (Spec)

\* The handler ran to completion on the file as it found it.
Handle(request, out) ==
    /\ req' = request
    /\ pre' = file
    /\ call' = out.call
    /\ arg' = out.arg
    /\ ret' = out.r.ret
    /\ resp' = out.resp
    /\ file' = Persist(file, out.r)
    /\ assigned' = IF out.call = "create_order"
                   THEN assigned \cup {out.r.ret[1].orderId}
                   ELSE assigned
    /\ onlyCreates' = (onlyCreates /\ out.call \in {"create_order", "none"})
    /\ UNCHANGED concVars

\* The model stops creating when the list or the next id reaches its bound.
CanCreate(list) ==
    /\ Len(list) < MaxOrders
    /\ get_next_order_id(list) <= MaxId

add_order ==
    \E v \in Variants, body \in Bodies :
        /\ CanCreate(read_orders(file))
        /\ Handle([kind |-> "POST", variant |-> v, id |-> 0, body |-> Some(body)],
                  add_order_of(v, read_orders(file), body))

modify_order ==
    \E v \in Variants, order_id \in Ids, body \in Bodies :
        Handle([kind |-> "PUT", variant |-> v, id |-> order_id, body |-> Some(body)],
               modify_order_of(v, read_orders(file), order_id, body))

remove_order ==
    \E v \in Variants, order_id \in Ids :
        Handle([kind |-> "DELETE", variant |-> v, id |-> order_id, body |-> None],
               remove_order_any(read_orders(file), order_id))

read_order ==
    \E v \in Variants, order_id \in Ids :
        Handle([kind |-> "GET", variant |-> v, id |-> order_id, body |-> None],
               read_order_of(v, read_orders(file), order_id))

read_orders_endpoint ==
    \E v \in Variants :
        Handle([kind |-> "LIST", variant |-> v, id |-> 0, body |-> None],
               read_orders_any(read_orders(file)))

Next ==
    \/ add_order
    \/ modify_order
    \/ remove_order
    \/ read_order
    \/ read_orders_endpoint

Spec == Init /\ [][Next]_vars

\* ----------------------------- interleaved store operations (SpecConc)
\* Two requests are served at once.  A store function's read_orders() is
\* one step and the rest of it, up to and including its write_orders(), is
\* another; nothing keeps other steps from running between the two.

\* The order each process sends.
DraftOf(p) == IF p = 1 THEN BodyAlice ELSE BodyBob

\* read_orders() at the first line of a store function.
StartOp(p, o) ==
    /\ pc[p] \in {"idle", "done"}
    /\ nreq < MaxReqs
    /\ nreq' = nreq + 1
    /\ pc' = [pc EXCEPT ![p] = "read"]
    /\ op' = [op EXCEPT ![p] = o]
    /\ orders' = [orders EXCEPT ![p] = read_orders(file)]
    /\ result' = [result EXCEPT ![p] = None]
    /\ stale' = [stale EXCEPT ![p] = FALSE]
    /\ UNCHANGED <<file, lastWriter>>
    /\ UNCHANGED seqVars

\* The rest of the store function, on the list read earlier.
EndOp(p, r) ==
    /\ pc' = [pc EXCEPT ![p] = "done"]
    /\ result' = [result EXCEPT ![p] = r.ret]
    /\ stale' = [stale EXCEPT ![p] = (read_orders(file) # orders[p])]
    /\ file' = Persist(file, r)
    /\ lastWriter' = IF r.writes THEN p ELSE lastWriter
    /\ UNCHANGED <<op, orders, nreq>>
    /\ UNCHANGED seqVars

create_order_read(p) ==
    StartOp(p, [kind |-> "create", id |-> 0, draft |-> Some(DraftOf(p))])

\* Variant: the list is read again under a lock held across the write.
create_order_write_locked(p) ==
    /\ pc[p] = "read"
    /\ op[p].kind = "create"
    /\ EndOp(p, create_order(read_orders(file), op[p].draft[1]))

create_order_write(p) ==
    /\ pc[p] = "read"
    /\ op[p].kind = "create"
    /\ EndOp(p, create_order(orders[p], op[p].draft[1]))

update_order_read(p) ==
    \E order_id \in Ids :
        StartOp(p, [kind |-> "update", id |-> order_id, draft |-> Some(DraftOf(p))])

update_order_write(p) ==
    /\ pc[p] = "read"
    /\ op[p].kind = "update"
    /\ EndOp(p, update_order(orders[p], op[p].id, op[p].draft[1]))

delete_order_read(p) ==
    \E order_id \in Ids :
        StartOp(p, [kind |-> "delete", id |-> order_id, draft |-> None])

delete_order_write(p) ==
    /\ pc[p] = "read"
    /\ op[p].kind = "delete"
    /\ EndOp(p, delete_order(orders[p], op[p].id))

NextConc ==
    \E p \in Procs :
        \/ create_order_read(p)
        \/ create_order_write(p)
        \/ update_order_read(p)
        \/ update_order_write(p)
        \/ delete_order_read(p)
        \/ delete_order_write(p)

SpecConc == Init /\ [][NextConc]_vars

\* ------------------------------------------------------------ properties

UniqueIds(list) ==
    \A i, j \in 1 .. Len(list) : list[i].orderId = list[j].orderId => i = j

HasId(list, order_id) == \E i \in 1 .. Len(list) : list[i].orderId = order_id

IndexOf(list, order_id) ==
    SetMin({i \in 1 .. Len(list) : list[i].orderId = order_id})

\* The list without its element at position i.
Without(list, i) == SubSeq(list, 1, i - 1) \o SubSeq(list, i + 1, Len(list))

\* The dict r is the draft d with the orderId set to order_id: the same keys
\* but for orderId, and the draft's value under every other key.
IsDraftWithId(r, d, order_id) ==
    /\ DOMAIN r = DOMAIN d \cup {"orderId"}
    /\ r.orderId = order_id
    /\ \A k \in DOMAIN d \ {"orderId"} : r[k] = d[k]

\* C1: from the empty store, while every store call so far is create_order,
\* the first create is given id 1001 and each later create an id greater
\* than every id given before.
C1_CreatesOnlyIncreasing ==
    [][(onlyCreates' /\ call' = "create_order") =>
          /\ assigned = {} => ret'[1].orderId = FirstOrderId
          /\ \A i \in assigned : ret'[1].orderId > i]_vars

C1_Witness ==
    /\ onlyCreates
    /\ call = "create_order"
    /\ assigned = FirstOrderId .. (FirstOrderId + 2)

\* C2: after any sequence of requests served one at a time, no two stored
\* orders have the same orderId.
C2_UniqueIds == UniqueIds(read_orders(file))

C2_Witness ==
    /\ call = "update_order"
    /\ ret # None
    /\ "orderId" \in DOMAIN arg[1]
    /\ arg[1].orderId # req.id
    /\ HasId(read_orders(pre), arg[1].orderId)
    /\ ~onlyCreates

\* C3: every create_order is given an id greater than every id given by an
\* earlier create_order, deleted orders included.
C3_NeverReused ==
    [][call' = "create_order" => \A i \in assigned : ret'[1].orderId > i]_vars

\* C5: right after create_order, get_order of the returned id yields a
\* record equal to the returned one, which is the draft plus the new id.
C5_GetAfterCreate ==
    call = "create_order" =>
        /\ get_order(read_orders(file), ret[1].orderId) = ret
        /\ IsDraftWithId(ret[1], arg[1], ret[1].orderId)

C5_Witness ==
    /\ call = "create_order"
    /\ Len(read_orders(pre)) >= 1
    /\ Len(read_orders(pre)) < Cardinality(assigned) - 1
    /\ get_order(read_orders(file), ret[1].orderId) = ret

\* C6: update_order of a stored id returns and stores the draft with the
\* orderId forced to that id, at the same position, all else unchanged.
C6_UpdateReplaces ==
    (call = "update_order" /\ HasId(read_orders(pre), req.id)) =>
        LET old == read_orders(pre)
            new == read_orders(file)
            i == IndexOf(old, req.id)
        IN  /\ ret # None
            /\ IsDraftWithId(ret[1], arg[1], req.id)
            /\ Len(new) = Len(old)
            /\ new[i] = ret[1]
            /\ \A j \in 1 .. Len(old) : j # i => new[j] = old[j]

C6_Witness ==
    /\ call = "update_order"
    /\ HasId(read_orders(pre), req.id)
    /\ Len(read_orders(pre)) >= 2
    /\ IndexOf(read_orders(pre), req.id) < Len(read_orders(pre))
    /\ "orderId" \in DOMAIN arg[1]
    /\ arg[1].orderId # req.id
    /\ "customer" \in DOMAIN read_orders(pre)[IndexOf(read_orders(pre), req.id)]
    /\ read_orders(pre)[IndexOf(read_orders(pre), req.id)].customer # arg[1].customer

\* C7: delete_order of a stored id answers "deleted" and removes that one
\* record; the others stay, unchanged and in order.
C7_DeleteRemovesOne ==
    (call = "delete_order" /\ HasId(read_orders(pre), req.id)) =>
        LET old == read_orders(pre)
            new == read_orders(file)
        IN  /\ ret = Some([orderId |-> req.id, status |-> "deleted"])
            /\ get_order(new, req.id) = None
            /\ Len(new) = Len(old) - 1
            /\ new = Without(old, IndexOf(old, req.id))

C7_Witness ==
    /\ call = "delete_order"
    /\ Len(read_orders(pre)) = 3
    /\ IndexOf(read_orders(pre), req.id) = 2
    /\ Len(read_orders(file)) = 2

\* C8: update_order of an id not stored returns None, delete_order of one
\* answers "not found", and neither changes the stored list; delete_order
\* always returns a result.
C8_AbsentIdNoChange ==
    /\ (call = "update_order" /\ ~HasId(read_orders(pre), req.id)) =>
           /\ ret = None
           /\ read_orders(file) = read_orders(pre)
    /\ (call = "delete_order" /\ ~HasId(read_orders(pre), req.id)) =>
           /\ ret = Some([orderId |-> req.id, status |-> "not found"])
           /\ read_orders(file) = read_orders(pre)
    /\ call = "delete_order" =>
           /\ ret # None
           /\ ret[1].orderId = req.id
           /\ ret[1].status \in {"deleted", "not found"}

C8_Witness ==
    /\ call = "update_order"
    /\ ~HasId(read_orders(pre), req.id)
    /\ Len(read_orders(pre)) >= 2
    /\ req.id < MaxId

\* C9: in each variant a GET of an id not stored, and a PUT of a valid body
\* to one, is answered 404.
C9_AbsentIs404 ==
    (call \in {"get_order", "update_order"} /\ ~HasId(read_orders(pre), req.id)) =>
        resp.status = HTTP_404_NOT_FOUND

\* C4: two create_order calls that read the same list are given the same
\* id, and once both have written, the file is that list plus the order of
\* the later writer alone.
C4_LostCreate ==
    \A p, q \in Procs :
        (/\ p # q
         /\ pc[p] = "done" /\ pc[q] = "done"
         /\ op[p].kind = "create" /\ op[q].kind = "create"
         /\ orders[p] = orders[q]) =>
            /\ result[p][1].orderId = result[q][1].orderId
            /\ lastWriter \in {p, q}
            /\ read_orders(file) = Append(orders[p], result[lastWriter][1])

C4_Witness ==
    \E p, q \in Procs :
        /\ p # q
        /\ pc[p] = "done" /\ pc[q] = "done"
        /\ op[p].kind = "create" /\ op[q].kind = "create"
        /\ stale[q] /\ ~stale[p]
        /\ orders[p] # <<>>
        /\ result[p][1].orderId = result[q][1].orderId
        /\ result[p] # result[q]
        /\ get_order(read_orders(file), result[q][1].orderId) = result[q]
        /\ \A i \in 1 .. Len(read_orders(file)) : read_orders(file)[i] # result[p][1]

\* C10: however the reads and writes of create, update and delete
\* interleave, the file never holds two records with the same orderId.
C10_UniqueIdsInterleaved == UniqueIds(read_orders(file))

C10_Witness ==
    \E p \in Procs :
        /\ pc[p] = "done"
        /\ stale[p]
        /\ lastWriter = p
        /\ Len(read_orders(file)) >= 2

====
